---- MODULE Spec2Model ----
(***************************************************************************)
(* Model of check_license.py: a single pass of os.walk over root_dir that  *)
(* opens every listed file whose name ends with ".java", reads it in text  *)
(* mode and records its path when license_header is not a substring of     *)
(* what was read; the collected paths are printed after the walk.          *)
(*                                                                         *)
(* The filesystem is a variable: the root and up to MaxNodes entries below *)
(* it.  The entries are numbered breadth-first (0 is the root) and those of *)
(* one directory are listed in increasing number, so every tree and every  *)
(* listing order of at most MaxNodes entries is some value of fs.          *)
(***************************************************************************)
EXTENDS Naturals, Sequences, FiniteSets, TLC

VARIABLES
    fs,                     \* the filesystem: [root |-> entry, nodes |-> <<entry, ...>>]
    pc,                     \* position of the script
    stack,                  \* os.walk: directories still to be listed, next first
    subdir,                 \* the directory os.walk yielded last
    files,                  \* the rest of the `files` list of that directory
    handle,                 \* the file objects that are open
    content,                \* what file.read() returned inside file_contains_license
    raised,                 \* an exception is propagating out of the with block
    files_missing_license,  \* the list of line 33
    output,                 \* the lines printed to standard output
    listed,                 \* history: entries os.walk has yielded in this run
    opened,                 \* history: entries passed to open() in this run, in order
    run,                    \* number of the current run of the script
    prev                    \* history: outcome of each earlier run

vars == <<fs, pc, stack, subdir, files, handle, content, raised,
          files_missing_license, output, listed, opened, run, prev>>

-----------------------------------------------------------------------------
(* Bounds of the model *)

MaxNodes == 3
MaxRuns == 2

-----------------------------------------------------------------------------
(* Constants of the script *)

license_header ==
    "/* Copyright 2025 Evan Troxell\n" \o
    " *\n" \o
    " * Licensed under the Apache License, Version 2.0 (the \"License\");\n" \o
    " * you may not use this file except in compliance with the License.\n" \o
    " * You may obtain a copy of the License at\n" \o
    " *\n" \o
    " *    http://www.apache.org/licenses/LICENSE-2.0\n" \o
    " *\n" \o
    " * Unless required by applicable law or agreed to in writing, software\n" \o
    " * distributed under the License is distributed on an \"AS IS\" BASIS,\n" \o
    " * WITHOUT WARRANTIES OR CONDITIONS OF ANY KIND, either express or implied.\n" \o
    " * See the License for the specific language governing permissions and\n" \o
    " * limitations under the License.\n" \o
    " *\n" \o
    " */\n"

root_dir == "/Users/evantroxell/Desktop/TranscendRuins"

Extension == ".java"

HeaderLine == "Files missing the license header:"

SuccessLine == "All files contain the license header."

-----------------------------------------------------------------------------
(* String functions of Python, computed as Python computes them *)

\* suffix occurs somewhere in s, not necessarily at its end
occurs_in(s, suffix) ==
    \E i \in 1..(Len(s) + 1) :
        /\ i + Len(suffix) - 1 <= Len(s)
        /\ SubSeq(s, i, i + Len(suffix) - 1) = suffix

\* s.endswith(suffix): case-sensitive comparison of the last Len(suffix) characters
endswith(s, suffix) ==
    /\ Len(suffix) <= Len(s)
    /\ SubSeq(s, Len(s) - Len(suffix) + 1, Len(s)) = suffix

\* needle in hay: needle occurs at some offset of hay, character for character
str_in(needle, hay) ==
    \E i \in 1..(Len(hay) + 1) :
        /\ i + Len(needle) - 1 <= Len(hay)
        /\ SubSeq(hay, i, i + Len(needle) - 1) = needle

\* os.path.join(a, b) on POSIX for a relative b
path_join(a, b) ==
    IF a = "" \/ endswith(a, "/") THEN a \o b ELSE a \o "/" \o b

\* positions of carriage returns in s
CrPositions(s) == {i \in 1..Len(s) : SubSeq(s, i, i) = "\r"}

Min(S) == CHOOSE x \in S : \A y \in S : x <= y

\* Text mode with newline=None: "\r\n" and a lone "\r" are read as "\n"
RECURSIVE universal_newlines(_)
universal_newlines(s) ==
    IF CrPositions(s) = {} THEN s
    ELSE LET i == Min(CrPositions(s))
             rest == IF i < Len(s) /\ SubSeq(s, i + 1, i + 1) = "\n"
                     THEN SubSeq(s, i + 2, Len(s))
                     ELSE SubSeq(s, i + 1, Len(s))
         IN SubSeq(s, 1, i - 1) \o "\n" \o universal_newlines(rest)

-----------------------------------------------------------------------------
(* The filesystem *)

Node(f, i) == IF i = 0 THEN f.root ELSE f.nodes[i]

\* a directory that scandir can list
Listable(f, i) == Node(f, i).kind = "dir" /\ Node(f, i).mode = "ok"

\* the entries of directory d in listing order
RECURSIVE Select(_, _, _, _)
Select(f, d, kind, i) ==
    IF i > Len(f.nodes) THEN <<>>
    ELSE (IF f.nodes[i].parent = d /\ f.nodes[i].kind = kind THEN <<i>> ELSE <<>>)
         \o Select(f, d, kind, i + 1)

\* os.walk's dirs and files of directory d
DirsOf(f, d) == Select(f, d, "dir", 1)
FilesOf(f, d) == Select(f, d, "file", 1)

\* the path os.walk and os.path.join build for entry i
RECURSIVE PathOf(_, _)
PathOf(f, i) ==
    IF i = 0 THEN root_dir
    ELSE path_join(PathOf(f, f.nodes[i].parent), f.nodes[i].name)

-----------------------------------------------------------------------------
(* The trees and contents the runs are started on *)

\* a file that carries the header after leading text, and one that does not
Conforming == "package a;\n" \o license_header \o "class A {}\n"

Bare == "class A {}\n"

\* what a file can be: readable text, not openable, or not decodable as text
FileStates ==
    {[content |-> c, mode |-> "ok"] : c \in {Conforming, Bare}}
    \cup {[content |-> "", mode |-> m] : m \in {"noaccess", "undecodable"}}

DirEntry(p, n, m) ==
    [parent |-> p, kind |-> "dir", name |-> n, content |-> "", mode |-> m]

FileEntry(p, n, c, m) ==
    [parent |-> p, kind |-> "file", name |-> n, content |-> c, mode |-> m]

\* the directories of the entry sequence t, the root included
DirIds(t) == {0} \cup {j \in 1..Len(t) : t[j].kind = "dir"}

\* the names already used in directory p
NamesIn(t, p) == {t[j].name : j \in {k \in 1..Len(t) : t[k].parent = p}}

\* the entries whose parent is one of the first k entries or the root: a
\* directory that can or cannot be listed, a directory named like a source file,
\* a source file in any state, another file without the header or not openable
EntriesBelow(k) ==
    {DirEntry(p, "sub", m) : p \in 0..k, m \in {"ok", "noaccess"}}
    \cup {DirEntry(p, "pkg.java", "ok") : p \in 0..k}
    \cup {FileEntry(p, n, st.content, st.mode) :
            p \in 0..k, n \in {"A.java", "B.java", "C.java"}, st \in FileStates}
    \cup {FileEntry(p, "D.txt", Bare, "ok") : p \in 0..k}
    \cup {FileEntry(p, "D.txt", "", "noaccess") : p \in 0..k}

\* e can be added to t: its parent is a directory of t, its name is fresh there,
\* and the numbering stays breadth-first (no entry of an earlier directory follows)
CanAdd(t, e) ==
    /\ e.parent \in DirIds(t)
    /\ e.name \notin NamesIn(t, e.parent)
    /\ t # <<>> => t[Len(t)].parent <= e.parent

\* the entry sequences of length n
RECURSIVE Trees(_)
Trees(n) ==
    IF n = 0 THEN {<<>>}
    ELSE {Append(x[1], x[2]) :
            x \in {y \in Trees(n - 1) \X EntriesBelow(n - 1) : CanAdd(y[1], y[2])}}

RootDir(m) == [parent |-> 0, kind |-> "dir", name |-> root_dir, content |-> "", mode |-> m]

\* root_dir names nothing, a regular file, or a directory that cannot be listed
BadRoots ==
    {[parent |-> 0, kind |-> k, name |-> root_dir, content |-> "", mode |-> "ok"] :
        k \in {"missing", "file"}}
    \cup {RootDir("noaccess")}

\* the trees of fewer than MaxNodes entries under a listable root, and the bad roots
SmallTrees ==
    {[root |-> RootDir("ok"), nodes |-> t] : t \in UNION {Trees(n) : n \in 0..(MaxNodes - 1)}}
    \cup {[root |-> r, nodes |-> <<>>] : r \in BadRoots}

\* the header with line ends written as CR LF, and as CR
RECURSIVE replace_newlines(_, _)
replace_newlines(s, eol) ==
    LET nl == {i \in 1..Len(s) : SubSeq(s, i, i) = "\n"}
    IN IF nl = {} THEN s
       ELSE SubSeq(s, 1, Min(nl) - 1) \o eol
            \o replace_newlines(SubSeq(s, Min(nl) + 1, Len(s)), eol)

\* the header written with other line ends
OtherLineEnds ==
    { replace_newlines(license_header, "\r\n"),
      replace_newlines(license_header, "\r"),
      replace_newlines(SubSeq(license_header, 1, 34), "\r\n")
          \o SubSeq(license_header, 35, Len(license_header)) }

\* proper parts of the header, and the header with a blank added, removed or changed
NearMisses ==
    { "",
      SubSeq(license_header, 2, Len(license_header)),
      SubSeq(license_header, 1, Len(license_header) - 1),
      SubSeq(license_header, 1, 2) \o " " \o SubSeq(license_header, 3, Len(license_header)),
      "/*" \o SubSeq(license_header, 4, Len(license_header)),
      "/*\t" \o SubSeq(license_header, 4, Len(license_header)) }

HeaderVariants == {license_header} \cup NearMisses \cup OtherLineEnds

Leads == {"", " ", "package a;\n"}

Trails == {"", "class A {}\n"}

NameVariants ==
    {"A.java", "A.JAVA", "A.Java", "A.java.bak", ".java", "java", "Ajava", "A.jav", "A.txt"}

Padded(hs) == {l \o h \o t : l \in Leads, h \in hs, t \in Trails}

\* one file of any name and any content under a listable root
ContentFamily ==
    {[root |-> RootDir("ok"),
      nodes |-> <<FileEntry(0, n, l \o h \o t, "ok")>>] :
        n \in NameVariants, l \in Leads, h \in HeaderVariants, t \in Trails}

-----------------------------------------------------------------------------
(* The script *)

Init ==
    /\ \/ fs \in SmallTrees
       \/ \E t \in Trees(MaxNodes - 1), e \in EntriesBelow(MaxNodes - 1) :
             /\ CanAdd(t, e)
             /\ fs = [root |-> RootDir("ok"), nodes |-> Append(t, e)]
       \/ fs \in ContentFamily
    /\ pc = "walk"
    /\ stack = <<0>>
    /\ subdir = 0
    /\ files = <<>>
    /\ handle = {}
    /\ content = ""
    /\ raised = FALSE
    /\ files_missing_license = <<>>
    /\ output = <<>>
    /\ listed = {}
    /\ opened = <<>>
    /\ run = 1
    /\ prev = <<>>

\* line 27: the mode the file is opened in
OpenMode == "r"

\* an open that truncates in every mode
open_truncating(f, i, mode) == IF i > 0 THEN [f EXCEPT !.nodes[i].content = ""] ELSE f

\* what open(path, mode) does to the filesystem: only a writing mode truncates
open_effect(f, i, mode) ==
    IF mode = "w" /\ i > 0
    THEN [f EXCEPT !.nodes[i].content = ""]
    ELSE f

\* a test for the header at the start of what was read
file_starts_with_license(c) ==
    /\ Len(license_header) <= Len(c)
    /\ SubSeq(c, 1, Len(license_header)) = license_header

\* line 29: the test of file_contains_license on what was read
file_contains_license(c) == str_in(license_header, c)

\* a close that is skipped when the body raised
close_unless_raised(h, i, exc) == IF exc THEN h ELSE h \ {i}

\* lines 27-29: the with statement closes the file however its body ends
with_exit(h, i, exc) == h \ {i}

\* an insertion at the front of the list
list_prepend(l, p) == <<p>> \o l

\* line 41: files_missing_license.append(file_path)
list_append(l, p) == Append(l, p)

\* a report that prints the header line whatever the list holds
report_with_header(l) == <<HeaderLine>> \o l

\* lines 44-49: the lines printed for the list l
report_lines(l) == IF l # <<>> THEN <<HeaderLine>> \o l ELSE <<SuccessLine>>

\* the entries one level below directory d
ChildrenOf(f, d) == {i \in 1..Len(f.nodes) : f.nodes[i].parent = d}

\* line 36, os.walk: the next directory is listed and yielded, its
\* subdirectories are to be walked before the directories still pending
WalkYield ==
    /\ pc = "walk"
    /\ stack # <<>>
    /\ Listable(fs, Head(stack))
    /\ subdir' = Head(stack)
    /\ files' = FilesOf(fs, Head(stack))
    /\ stack' = DirsOf(fs, Head(stack)) \o Tail(stack)
    /\ listed' = listed \cup ChildrenOf(fs, Head(stack))
    /\ pc' = "files"
    /\ UNCHANGED <<fs, handle, content, raised, files_missing_license, output,
                   opened, run, prev>>

\* line 36, os.walk with onerror=None: a top that scandir cannot list (missing,
\* not a directory, no permission) is passed over without an exception
WalkSkip ==
    /\ pc = "walk"
    /\ stack # <<>>
    /\ ~Listable(fs, Head(stack))
    /\ stack' = Tail(stack)
    /\ UNCHANGED <<fs, pc, subdir, files, handle, content, raised,
                   files_missing_license, output, listed, opened, run, prev>>

\* line 36: os.walk is exhausted, the loop ends
WalkEnd ==
    /\ pc = "walk"
    /\ stack = <<>>
    /\ pc' = "report"
    /\ UNCHANGED <<fs, stack, subdir, files, handle, content, raised,
                   files_missing_license, output, listed, opened, run, prev>>

\* line 37: the files of the yielded directory are exhausted
FilesEnd ==
    /\ pc = "files"
    /\ files = <<>>
    /\ pc' = "walk"
    /\ UNCHANGED <<fs, stack, subdir, files, handle, content, raised,
                   files_missing_license, output, listed, opened, run, prev>>

\* lines 37-38: a file whose name does not end with ".java" is passed over
SkipFile ==
    /\ pc = "files"
    /\ files # <<>>
    /\ ~endswith(Node(fs, Head(files)).name, Extension)
    /\ files' = Tail(files)
    /\ UNCHANGED <<fs, pc, stack, subdir, handle, content, raised,
                   files_missing_license, output, listed, opened, run, prev>>

\* an open whose failure is caught: the file is passed over and the loop goes on
OpenFileOrSkip ==
    /\ pc = "files"
    /\ files # <<>>
    /\ endswith(Node(fs, Head(files)).name, Extension)
    /\ opened' = Append(opened, Head(files))
    /\ \/ /\ Node(fs, Head(files)).mode = "noaccess"
          /\ files' = Tail(files)
          /\ UNCHANGED <<fs, handle, pc>>
       \/ /\ Node(fs, Head(files)).mode # "noaccess"
          /\ fs' = open_effect(fs, Head(files), OpenMode)
          /\ handle' = handle \cup {Head(files)}
          /\ pc' = "with_body"
          /\ UNCHANGED files
    /\ UNCHANGED <<stack, subdir, content, raised, files_missing_license,
                   output, listed, run, prev>>

\* lines 38-40 and 27: a file whose name ends with ".java" is opened; open()
\* raises when the file cannot be opened, and nothing catches it
OpenFile ==
    /\ pc = "files"
    /\ files # <<>>
    /\ endswith(Node(fs, Head(files)).name, Extension)
    /\ opened' = Append(opened, Head(files))
    /\ \/ /\ Node(fs, Head(files)).mode = "noaccess"
          /\ pc' = "error"
          /\ UNCHANGED <<fs, handle>>
       \/ /\ Node(fs, Head(files)).mode # "noaccess"
          /\ fs' = open_effect(fs, Head(files), OpenMode)
          /\ handle' = handle \cup {Head(files)}
          /\ pc' = "with_body"
    /\ UNCHANGED <<stack, subdir, files, content, raised, files_missing_license,
                   output, listed, run, prev>>

\* line 28: file.read() decodes the whole file and translates its line ends;
\* it raises when the bytes are not text
ReadFile ==
    /\ pc = "with_body"
    /\ \/ /\ Node(fs, Head(files)).mode = "undecodable"
          /\ raised' = TRUE
          /\ UNCHANGED content
       \/ /\ Node(fs, Head(files)).mode # "undecodable"
          /\ content' = universal_newlines(Node(fs, Head(files)).content)
          /\ UNCHANGED raised
    /\ pc' = "with_exit"
    /\ UNCHANGED <<fs, stack, subdir, files, handle, files_missing_license, output,
                   listed, opened, run, prev>>

\* lines 29 and 40-41: the with block is left, by the return or by the exception;
\* after the return the path is appended when the header was not found
WithExit ==
    /\ pc = "with_exit"
    /\ handle' = with_exit(handle, Head(files), raised)
    /\ \/ /\ raised
          /\ pc' = "error"
          /\ UNCHANGED <<files, files_missing_license>>
       \/ /\ ~raised
          /\ files_missing_license' =
                IF file_contains_license(content)
                THEN files_missing_license
                ELSE list_append(files_missing_license,
                                 path_join(PathOf(fs, subdir), Node(fs, Head(files)).name))
          /\ files' = Tail(files)
          /\ pc' = "files"
    /\ content' = ""
    /\ UNCHANGED <<fs, stack, subdir, raised, output, listed, opened, run, prev>>

\* lines 44-49: the report
Report ==
    /\ pc = "report"
    /\ output' = report_lines(files_missing_license)
    /\ pc' = "done"
    /\ UNCHANGED <<fs, stack, subdir, files, handle, content, raised,
                   files_missing_license, listed, opened, run, prev>>

\* a further run that goes on with the walk of the earlier one, already exhausted
RerunSameWalk ==
    /\ pc \in {"done", "error"}
    /\ run < MaxRuns
    /\ prev' = Append(prev, [pc |-> pc, files_missing_license |-> files_missing_license,
                             output |-> output])
    /\ run' = run + 1
    /\ pc' = "walk"
    /\ handle' = {}
    /\ content' = ""
    /\ raised' = FALSE
    /\ files_missing_license' = <<>>
    /\ output' = <<>>
    /\ listed' = {}
    /\ opened' = <<>>
    /\ UNCHANGED <<fs, stack, subdir, files>>

\* the script is started again after it ended: a new process, whose state is
\* that of lines 33-36; the filesystem is what the earlier run left
Rerun ==
    /\ pc \in {"done", "error"}
    /\ run < MaxRuns
    /\ prev' = Append(prev, [pc |-> pc, files_missing_license |-> files_missing_license,
                             output |-> output])
    /\ run' = run + 1
    /\ pc' = "walk"
    /\ stack' = <<0>>
    /\ subdir' = 0
    /\ files' = <<>>
    /\ handle' = {}
    /\ content' = ""
    /\ raised' = FALSE
    /\ files_missing_license' = <<>>
    /\ output' = <<>>
    /\ listed' = {}
    /\ opened' = <<>>
    /\ UNCHANGED fs

Next ==
    \/ WalkYield
    \/ WalkSkip
    \/ WalkEnd
    \/ FilesEnd
    \/ SkipFile
    \/ OpenFile
    \/ ReadFile
    \/ WithExit
    \/ Report
    \/ Rerun


Spec == Init /\ [][Next]_vars

-----------------------------------------------------------------------------
(* Notions the properties are stated in *)

Range(q) == {q[k] : k \in 1..Len(q)}

NoDuplicates(q) == \A j, k \in 1..Len(q) : q[j] = q[k] => j = k

IsPrefix(p, q) == Len(p) <= Len(q) /\ SubSeq(q, 1, Len(p)) = p

\* the entries of the filesystem that are files
FileIds == {i \in 1..Len(fs.nodes) : fs.nodes[i].kind = "file"}

\* the name of entry i is some text followed by the extension
NameMatches(i) ==
    \E k \in 0..Len(fs.nodes[i].name) :
        SubSeq(fs.nodes[i].name, 1, k) \o Extension = fs.nodes[i].name

\* the header occurs in the stored content of file i, character for character
StoredHasHeader(i) ==
    \E k \in 1..(Len(fs.nodes[i].content) + 1) :
        /\ k + Len(license_header) - 1 <= Len(fs.nodes[i].content)
        /\ SubSeq(fs.nodes[i].content, k, k + Len(license_header) - 1) = license_header

\* the header occurs in the text that reading file i in text mode gives
ReadHasHeader(i) == file_contains_license(universal_newlines(fs.nodes[i].content))

Reported == Range(files_missing_license)

\* contents that hold the header, a near miss of it, the header with other line ends
WithHeader == Padded({license_header})

WithNearMiss == Padded(NearMisses \cup OtherLineEnds)

WithOtherLineEnds == Padded(OtherLineEnds)

\* the paths of the readable files among q that lack the header, in the order of q
RECURSIVE ViolationsAmong(_)
ViolationsAmong(q) ==
    IF q = <<>> THEN <<>>
    ELSE (IF fs.nodes[Head(q)].mode = "ok" /\ ~ReadHasHeader(Head(q))
          THEN <<PathOf(fs, Head(q))>> ELSE <<>>)
         \o ViolationsAmong(Tail(q))

-----------------------------------------------------------------------------
(* Properties *)

\* C1: when the run completes, the reported paths are exactly the paths of the
\* files under the root, at any depth, whose name ends with the extension and
\* whose content does not contain the license header as a contiguous substring.
C1_ReportedExactlyTheViolations ==
    pc = "done" =>
        Reported = {PathOf(fs, i) : i \in {j \in FileIds : NameMatches(j) /\ ~StoredHasHeader(j)}}

\* C2: when the root path does not exist or is not a directory, the run ends in
\* an error and prints nothing: it never completes and no line is emitted.
C2_BadRootFails ==
    fs.root.kind # "dir" => (pc # "done" /\ output = <<>>)

\* C3 as stated: in a completed run every discovered entry, of whatever kind, has
\* been opened if and only if its name ends with the extension.
C3_EveryEntryOpenedIffSuffix ==
    pc = "done" => \A i \in listed : (i \in Range(opened)) <=> NameMatches(i)

\* C3 as amended: only entries listed as files whose name ends with the extension
\* are ever opened or reported; a directory is never opened whatever its name;
\* and in a completed run every listed file with such a name has been opened.
C3_FilesOpenedIffSuffix ==
    /\ \A i \in Range(opened) : i \in listed /\ i \in FileIds /\ NameMatches(i)
    /\ \A p \in (Reported \cup Range(output)) \ {HeaderLine, SuccessLine} :
          \E i \in Range(opened) : p = PathOf(fs, i) /\ NameMatches(i)
    /\ pc = "done" =>
          \A i \in listed : (i \in Range(opened)) <=> (i \in FileIds /\ NameMatches(i))

\* a completed run that listed a directory named like a source file and a file
\* of another suffix without the header, next to a file it opened
C3_Witness ==
    /\ pc = "done"
    /\ \E i, j \in listed :
          /\ i \in FileIds /\ NameMatches(i) /\ i \in Range(opened)
          /\ j \in FileIds /\ ~NameMatches(j) /\ ~StoredHasHeader(j)
          /\ j \notin Range(opened)
    /\ \E d \in listed : fs.nodes[d].kind = "dir" /\ NameMatches(d)

\* C4: on a completed scan the output is the success line alone when there is no
\* violation, and otherwise the header line followed by one line per violation,
\* each printed once, in the order in which the traversal met them.
C4_OutputShape ==
    pc = "done" =>
        /\ ViolationsAmong(opened) = <<>> => output = <<SuccessLine>>
        /\ ViolationsAmong(opened) # <<>> =>
              /\ Head(output) = HeaderLine
              /\ Tail(output) = ViolationsAmong(opened)
              /\ NoDuplicates(Tail(output))

C4_Witness ==
    /\ pc = "done"
    /\ Len(output) >= 3
    /\ \E i \in 1..Len(fs.nodes) : fs.nodes[i].parent # 0 /\ PathOf(fs, i) \in Range(output)

\* C5 as stated: a candidate whose content is leading text, the header and
\* trailing text is not reported; a candidate holding only a proper part of the
\* header, or the header with altered whitespace, is reported.
C5_ContainmentNoNormalisation ==
    pc = "done" =>
        \A i \in FileIds :
            (i \in listed /\ NameMatches(i)) =>
                /\ fs.nodes[i].content \in WithHeader => PathOf(fs, i) \notin Reported
                /\ fs.nodes[i].content \in WithNearMiss => PathOf(fs, i) \in Reported

\* C5 as amended: as above, except that a header whose line ends are written as
\* CR LF or CR is read as the header, text mode translating both to LF, and the
\* candidate holding it is not reported.
C5_ContainmentAfterNewlineTranslation ==
    pc = "done" =>
        \A i \in FileIds :
            (i \in listed /\ NameMatches(i)) =>
                /\ fs.nodes[i].content \in WithHeader => PathOf(fs, i) \notin Reported
                /\ fs.nodes[i].content \in WithNearMiss \ WithOtherLineEnds
                      => PathOf(fs, i) \in Reported
                /\ fs.nodes[i].content \in WithOtherLineEnds
                      => PathOf(fs, i) \notin Reported

\* a completed run over a candidate that holds the header after leading text
\* and before trailing text
C5_Witness ==
    /\ pc = "done"
    /\ \E i \in FileIds :
          /\ i \in Range(opened)
          /\ fs.nodes[i].content = "package a;\n" \o license_header \o "class A {}\n"
          /\ PathOf(fs, i) \notin Reported

\* C6: a run that follows another on the unchanged tree ends as that run did,
\* with the same set of violations; nothing of the earlier run reaches it.
C6_SecondRunSameViolations ==
    (run > 1 /\ pc \in {"done", "error"}) =>
        /\ pc = prev[run - 1].pc
        /\ Reported = Range(prev[run - 1].files_missing_license)

\* a second run that completed and reported a violation
C6_Witness ==
    /\ run = 2
    /\ pc = "done"
    /\ files_missing_license # <<>>
    /\ Len(opened) > Len(files_missing_license)

\* C7: no step of a run, of one that aborts included, changes the directories,
\* the files or the content of any file.
C7_FilesystemUnchanged == [][fs' = fs]_vars

\* a run that aborted on a file after it had opened and read another
C7_Witness ==
    /\ pc = "error"
    /\ Len(opened) >= 2
    /\ \E i \in Range(opened) : fs.nodes[i].mode = "ok" /\ fs.nodes[i].content # ""

\* C8: at most one file is open at any time, it is the candidate being checked,
\* and no file is open between two candidates or once the run has ended, whether
\* the read succeeded or failed.
C8_HandleReleased ==
    /\ Cardinality(handle) <= 1
    /\ pc \in {"with_body", "with_exit"} => handle = {Head(files)}
    /\ pc \notin {"with_body", "with_exit"} => handle = {}

\* a run that ended because reading a file it had opened failed
C8_Witness ==
    /\ pc = "error"
    /\ raised
    /\ handle = {}
    /\ fs.nodes[opened[Len(opened)]].mode = "undecodable"

\* C9: a candidate that cannot be opened, read or decoded is the last one the
\* run opens; the run fails there and prints nothing, neither the violations
\* collected so far nor either line of the report.
C9_FailFast ==
    /\ \A k \in 1..Len(opened) :
          fs.nodes[opened[k]].mode # "ok" =>
              /\ k = Len(opened)
              /\ pc \in {"with_body", "with_exit", "error"}
              /\ output = <<>>
    /\ pc = "error" =>
          /\ opened # <<>>
          /\ fs.nodes[opened[Len(opened)]].mode # "ok"
          /\ output = <<>>

\* a run that failed with a violation collected and candidates still to check
C9_Witness ==
    /\ pc = "error"
    /\ files_missing_license # <<>>
    /\ Len(files) >= 2
    /\ NameMatches(files[2])

\* C10: within a run the list only grows, by one path appended at its end at a
\* time and no path twice, each candidate being opened once; nothing is printed
\* before the walk is exhausted, and the report is printed once.
C10_ReportLifecycle ==
    /\ [](/\ NoDuplicates(files_missing_license)
          /\ NoDuplicates(opened)
          /\ opened = <<>> => files_missing_license = <<>>
          /\ output # <<>> <=> pc = "done"
          /\ pc = "done" => stack = <<>> /\ files = <<>>)
    /\ [][run' = run =>
            /\ IsPrefix(files_missing_license, files_missing_license')
            /\ Len(files_missing_license') <= Len(files_missing_license) + 1
            /\ output # <<>> => output' = output
            /\ output' # output => pc = "report" /\ pc' = "done"]_vars

\* a completed run that printed two violations
C10_Witness ==
    /\ pc = "done"
    /\ Len(files_missing_license) = 2
    /\ Len(output) = 3

====
